---- MODULE Spec2Model ----
(***************************************************************************)
(* gosqlpp: the SQL preprocessor (internal/preprocessor) and the statement *)
(* assembler (internal/processor).                                         *)
(*                                                                         *)
(* Text is modelled as a sequence of symbols.  A symbol is a short string  *)
(* standing for the characters it spells; the only facts the code uses     *)
(* about a symbol are whether it is whitespace, whether it is made of word *)
(* characters only ([0-9A-Za-z_]), and whether its first / last character  *)
(* is a word character (for the regexp assertion \b).                      *)
(***************************************************************************)
EXTENDS Integers, Sequences, FiniteSets, TLC

VARIABLES
    fs,                \* file name -> lines of the file read so far
    eof,               \* files whose length is known (end of file was met)
    defines,           \* Preprocessor.defines: name -> value
    conditionalStack,  \* Preprocessor.conditionalStack.blocks
    readers,           \* active processReader calls, outermost first
    status,            \* "idle", "running", "done", "failed", "panic"
    ret,               \* what the last ProcessFile call returned
    vocab,             \* the lines the scripts of the file system are made of
    nread,             \* number of lines read from the file system so far
    last,              \* the line handled by the latest step (observation)
    opened,            \* conditional-open directives not yet closed (history)
    subIn,             \* substituteVariables: latest argument
    subOut,            \* substituteVariables: latest result
    endOnError,        \* Processor.endOnError
    stmtList,          \* executeStatements: the statements it was called with
    stmtIndex,         \* executeStatements: position of the range loop
    calls,             \* calls made on the executor and the introspector
    execRet            \* "none", "running", or what executeStatements returned

expVars == <<fs, eof, vocab, nread, conditionalStack, readers, status, ret, last, opened>>
subVars == <<subIn, subOut>>
execVars == <<endOnError, stmtList, stmtIndex, calls, execRet>>
vars == <<fs, eof, vocab, nread, defines, conditionalStack, readers, status, ret,
          last, opened, subIn, subOut, endOnError, stmtList, stmtIndex, calls,
          execRet>>

----------------------------------------------------------------------------
(* Bounds *)

MaxLines == 5        \* lines read from the file system in one behaviour
MaxDepth == 3        \* nested processReader calls
MaxLineLen == 2      \* symbols of a line given to substituteVariables
MaxValLen == 2       \* symbols of a value given to SetDefine

None == <<"none">>

----------------------------------------------------------------------------
(* Symbols *)

Quote == "\""
Space == " "
Tab == "\t"
Newline == "\n"

IsSpace(s) == s \in {Space, Tab, Newline}

\* symbols spelled with word characters only
IsWord(s) == s \in {"A", "a", "B", "c", "0", "1", "2", "SELECT", "go", "GO", "gopher"}

Keywords == {"#define", "#include", "#ifdef", "#ifndef", "#end"}

\* the first character of the symbol is a word character
StartsWord(s) == IsWord(s) \/ s \in {"main.sql", "inc.sqi", "missing.sqi"}

\* the last character of the symbol is a word character
EndsWord(s) == StartsWord(s) \/ s \in Keywords

----------------------------------------------------------------------------
(* strings package *)

RECURSIVE TrimLeft(_)
TrimLeft(t) ==
    IF t # <<>> /\ IsSpace(Head(t)) THEN TrimLeft(Tail(t)) ELSE t

RECURSIVE TrimRight(_)
TrimRight(t) ==
    IF t # <<>> /\ IsSpace(t[Len(t)]) THEN TrimRight(SubSeq(t, 1, Len(t) - 1)) ELSE t

TrimSpace(t) == TrimRight(TrimLeft(t))

HasPrefix(t, p) == Len(t) >= Len(p) /\ SubSeq(t, 1, Len(p)) = p

HasSuffix(t, p) == Len(t) >= Len(p) /\ SubSeq(t, Len(t) - Len(p) + 1, Len(t)) = p

\* first index j >= i with j > Len(t) or t[j] not whitespace
RECURSIVE SkipSpace(_, _)
SkipSpace(t, i) ==
    IF i <= Len(t) /\ IsSpace(t[i]) THEN SkipSpace(t, i + 1) ELSE i

\* first index j >= i with j > Len(t) or t[j] not a word symbol
RECURSIVE SkipWord(_, _)
SkipWord(t, i) ==
    IF i <= Len(t) /\ IsWord(t[i]) THEN SkipWord(t, i + 1) ELSE i

\* the rest of the line from index i matches (?:\s*//.*)?$
CommentOrEnd(t, i) ==
    LET c == SkipSpace(t, i)
    IN  i > Len(t) \/ (c <= Len(t) /\ t[c] = "//")

----------------------------------------------------------------------------
(* regexp.ReplaceAllString with the pattern \bNAME\b *)

\* \bNAME\b matches at index i of the line
MatchAt(line, i, name) ==
    /\ i + Len(name) - 1 <= Len(line)
    /\ SubSeq(line, i, i + Len(name) - 1) = name
    /\ (IF i = 1 THEN TRUE ELSE ~EndsWord(line[i - 1]))
    /\ (IF i + Len(name) > Len(line) THEN TRUE ELSE ~StartsWord(line[i + Len(name)]))

\* Regexp.expand: the replacement is a template in which $name, $N and $$
\* are interpreted; the pattern has no groups, so only $0 (the match) is set
RECURSIVE Expand(_, _)
Expand(template, match) ==
    IF template = <<>> THEN <<>>
    ELSE IF Head(template) # "$" THEN <<Head(template)>> \o Expand(Tail(template), match)
    ELSE LET rest == Tail(template)
             e == SkipWord(rest, 1)
         IN  IF rest # <<>> /\ Head(rest) = "$"
               THEN <<"$">> \o Expand(Tail(rest), match)
             ELSE IF e = 1
               THEN <<"$">> \o Expand(rest, match)
             ELSE IF SubSeq(rest, 1, e - 1) = <<"0">>
               THEN match \o Expand(SubSeq(rest, e, Len(rest)), match)
             ELSE Expand(SubSeq(rest, e, Len(rest)), match)

RECURSIVE ReplaceAllFrom(_, _, _, _)
ReplaceAllFrom(line, i, name, value) ==
    IF i > Len(line) THEN <<>>
    ELSE IF MatchAt(line, i, name)
      THEN Expand(value, name) \o ReplaceAllFrom(line, i + Len(name), name, value)
    ELSE <<line[i]>> \o ReplaceAllFrom(line, i + 1, name, value)

ReplaceAllString(line, name, value) == ReplaceAllFrom(line, 1, name, value)

----------------------------------------------------------------------------
(* Preprocessor.substituteVariables *)

\* the orders in which `range p.defines` may visit the keys
Orders(defs) ==
    {o \in [1..Cardinality(DOMAIN defs) -> DOMAIN defs] :
        \A i, j \in DOMAIN o : i # j => o[i] # o[j]}

RECURSIVE SubstituteFrom(_, _, _, _)
SubstituteFrom(defs, order, k, result) ==
    IF k > Len(order) THEN result
    ELSE SubstituteFrom(defs, order, k + 1,
                        ReplaceAllString(result, order[k], defs[order[k]].Value))

substituteVariables(defs, line, order) == SubstituteFrom(defs, order, 1, line)

----------------------------------------------------------------------------
(* ConditionalStack *)

ConditionalBlock(type, variable, startLine, active) ==
    [Type |-> type, Variable |-> variable, StartLine |-> startLine, Active |-> active]

Push(blocks, block) == Append(blocks, block)

\* only the outermost block is looked at
ShouldInclude_OutermostOnly(blocks) ==
    IF blocks = <<>> THEN TRUE ELSE blocks[1].Active

ShouldInclude(blocks) == \A i \in DOMAIN blocks : blocks[i].Active

HasDefine(defs, name) == name \in DOMAIN defs

\* Pop returns an error on an empty stack
PopFails(blocks) == Len(blocks) = 0

Pop(blocks) == SubSeq(blocks, 1, Len(blocks) - 1)

\* the enclosing blocks are not looked at
IfdefActive_OwnTestOnly(defs, blocks, variableName) == HasDefine(defs, variableName)

\* processIfdef, lines 91-96
IfdefActive(defs, blocks, variableName) ==
    IF ~ShouldInclude(blocks) THEN FALSE ELSE HasDefine(defs, variableName)

\* processIfndef, lines 124-129
IfndefActive(defs, blocks, variableName) ==
    IF ~ShouldInclude(blocks) THEN FALSE ELSE ~HasDefine(defs, variableName)

\* processEnd without its own check of the stack
IsEmpty_Never(blocks) == FALSE

IsEmpty(blocks) == Len(blocks) = 0

\* a name that is defined keeps its first value
SetDefineIn_KeepFirst(defs, name, value) ==
    [n \in DOMAIN defs \cup {name} |->
        IF n \in DOMAIN defs THEN defs[n] ELSE [Name |-> name, Value |-> value]]

SetDefineIn(defs, name, value) ==
    [n \in DOMAIN defs \cup {name} |->
        IF n = name THEN [Name |-> name, Value |-> value] ELSE defs[n]]

----------------------------------------------------------------------------
(* Directive syntax *)

\* ^#ifdef\s+(\w+)(?:\s*//.*)?$ (kw = "#ifdef") and the same for #ifndef:
\* the captured name, or None
MatchConditional(kw, t) ==
    LET a == SkipSpace(t, 2)
        b == SkipWord(t, a)
    IN  IF t # <<>> /\ t[1] = kw /\ a > 2 /\ b > a /\ CommentOrEnd(t, b)
          THEN SubSeq(t, a, b - 1)
          ELSE None

\* end of the lazy group (.+?) that starts at index v: the first e >= v
\* after which only an optional comment follows
RECURSIVE LazyEnd(_, _)
LazyEnd(t, e) ==
    IF e >= Len(t) \/ CommentOrEnd(t, e + 1) THEN e ELSE LazyEnd(t, e + 1)

\* ^#define\s+(\w+)\s+(.+?)(?:\s*//.*)?$ : whether it matches, and the groups
MatchDefine(t) ==
    LET a == SkipSpace(t, 2)
        b == SkipWord(t, a)
        v == SkipSpace(t, b)
    IN  IF t # <<>> /\ t[1] = "#define" /\ a > 2 /\ b > a /\ v > b /\ v <= Len(t)
          THEN [ok |-> TRUE, name |-> SubSeq(t, a, b - 1),
                value |-> SubSeq(t, v, LazyEnd(t, v))]
          ELSE [ok |-> FALSE, name |-> <<>>, value |-> <<>>]

\* index of the first quote at or after i, or Len(t) + 1
RECURSIVE NextQuote(_, _)
NextQuote(t, i) ==
    IF i <= Len(t) /\ t[i] # Quote THEN NextQuote(t, i + 1) ELSE i

\* ^#include\s+"([^"]+)"(?:\s*//.*)?$ : the captured path, or None
MatchInclude(t) ==
    LET a == SkipSpace(t, 2)
        q == NextQuote(t, a + 1)
    IN  IF /\ t # <<>> /\ t[1] = "#include" /\ a > 2
           /\ a <= Len(t) /\ t[a] = Quote
           /\ q <= Len(t) /\ q > a + 1
           /\ CommentOrEnd(t, q + 1)
          THEN SubSeq(t, a + 1, q - 1)
          ELSE None

\* processDefine, lines 132-133: the trimmed value starts and ends with
\* the same quote character
IsQuoted(value) ==
    \/ HasPrefix(value, <<Quote>>) /\ HasSuffix(value, <<Quote>>)
    \/ HasPrefix(value, <<"'">>) /\ HasSuffix(value, <<"'">>)

\* processDefine, line 134: value[1 : len(value)-1] is out of range when the
\* value is a single quote character, and the run-time panics
DefinePanics(group) ==
    IsQuoted(TrimSpace(group)) /\ Len(TrimSpace(group)) < 2

\* processDefine, lines 129-135: the value to store
DefineValue(group) ==
    LET value == TrimSpace(group)
    IN  IF IsQuoted(value) THEN SubSeq(value, 2, Len(value) - 1) ELSE value

\* the path of the including file is taken for the path to include
ResolveInclude_Self(filename, includeFile) == filename

\* filepath.Join(filepath.Dir(filename), includeFile): every file of the
\* model lives in one directory and is named by its path from there, so the
\* directory of the including file is "." and the join is the path itself
ResolveInclude(filename, includeFile) == includeFile

----------------------------------------------------------------------------
(* The file system and the scripts the model reads *)

MainFile == <<"main.sql">>
IncFile == <<"inc.sqi">>
MissingFile == <<"missing.sqi">>
OtherFile == <<"other.sql">>

\* files that exist; os.Open fails on every other path
FileNames == {MainFile, IncFile, OtherFile}

Select1 == <<"SELECT", Space, "1", ";">>
Select2 == <<"SELECT", Space, "2", ";">>
SelectA == <<"SELECT", Space, "A", ";">>
GoLine == <<"go">>
DefineA == <<"#define", Space, "A", Space, "1">>
IfdefA == <<"#ifdef", Space, "A">>
IfndefA == <<"#ifndef", Space, "A">>
EndLine == <<"#end">>
IncludeInc == <<"#include", Space, Quote, "inc.sqi", Quote>>
IncludeMissing == <<"#include", Space, Quote, "missing.sqi", Quote>>
BareIfdef == <<"#ifdef">>
BareIfndef == <<Space, "#ifndef", Space>>
IfdefTwo == <<"#ifdef", Space, "A", Space, "B">>
DefineAa == <<"#define", Space, "A", Space, "a">>
DefineaA == <<"#define", Space, "a", Space, "A">>
BareDefine == <<"#define">>
DefineNoValue == <<"#define", Space, "A">>
DefineOnlyComment == <<"#define", Space, "A", Space, "//", Space, "c">>
EndComment == <<"#end", Space, "//", Space, "c">>
DefineQuoted == <<"#define", Space, "A", Space, Quote, "1", Space, "2", Quote, Space, "//", "c">>
DefineSingle == <<"#define", Space, "A", Space, "'", "1", "'">>
DefineUrl == <<"#define", Space, "A", Space, Quote, "1", "//", "2", Quote>>
DefineLoneQuote == <<"#define", Space, "A", Space, Quote>>
DefineA2 == <<"#define", Space, "A", Tab, "2", Space, "1", Space>>
GoTabLine == <<"go", Tab, "c">>
BlankLine == <<Space>>
GoUpperLine == <<Space, "GO", Space, "c">>
GopherLine == <<"gopher">>
SchemaLine == <<"@schema-tables", Space, "c">>

\* the lines a script may be made of: the scripts of one file system draw
\* their lines from one of these vocabularies
Vocabularies ==
    { {Select1, DefineA, IfdefA, IfndefA, EndLine},
      {Select1, IfdefA, EndLine, BareIfdef, BareIfndef, IfdefTwo},
      {Select1, Select2, GoLine, IncludeInc, IfndefA, EndLine},
      {SelectA, DefineA, IncludeInc, IncludeMissing, IfdefA, EndLine},
      {SelectA, DefineAa, DefineaA},
      {SelectA, BareDefine, DefineNoValue, DefineOnlyComment, EndComment},
      {SelectA, DefineQuoted, DefineSingle, DefineUrl, DefineLoneQuote},
      {SelectA, DefineA, DefineA2, IncludeInc},
      {Select1, Select2, GoLine, GoTabLine, BlankLine},
      {Select1, GoUpperLine, GopherLine, SchemaLine, BlankLine} }

Lines == UNION Vocabularies

\* bufio.Scanner.Scan on the file of the innermost reader: the lines it may
\* deliver after n lines were consumed.  A line already read is read again
\* as it was; a new line is any line of the vocabulary, while the bound allows
ScanLines(f, n) ==
    IF n < Len(fs[f]) THEN {fs[f][n + 1]}
    ELSE IF f \in eof \/ nread >= MaxLines THEN {}
    ELSE vocab

\* Scan returns false after n lines
ScanEnds(f, n) == n = Len(fs[f])

Scanned(f, n, line) ==
    /\ fs' = IF n < Len(fs[f]) THEN fs ELSE [fs EXCEPT ![f] = Append(@, line)]
    /\ nread' = IF n < Len(fs[f]) THEN nread ELSE nread + 1

----------------------------------------------------------------------------
(* Results and errors *)

\* every line is attributed to the file the caller asked for
SourceLocation_CallerFile(filename, lineNumber) ==
    [FileName |-> MainFile, LineNumber |-> lineNumber,
     OriginalFile |-> MainFile, OriginalLine |-> lineNumber]

SourceLocation(filename, lineNumber) ==
    [FileName |-> filename, LineNumber |-> lineNumber,
     OriginalFile |-> filename, OriginalLine |-> lineNumber]

NoError == [kind |-> "nil"]

\* fmt.Errorf("%s:%d: ...", filename, lineNumber); line 0 when the message
\* carries no line number
Errorf(kind, filename, lineNumber) ==
    [kind |-> kind, file |-> filename, line |-> lineNumber, via |-> <<>>]

\* processInclude, line 167: "%s:%d: error including file: %w", once for
\* each #include between the failing reader and the caller, innermost first
\* the error of the included file is returned as it is
IncludeErrors_Unwrapped(rs, k, err) == err

RECURSIVE IncludeErrors(_, _, _)
IncludeErrors(rs, k, err) ==
    IF k < 1 THEN err
    ELSE IncludeErrors(rs, k - 1,
            [err EXCEPT !.via = Append(@, [file |-> rs[k].file, line |-> rs[k].lineNumber])])

\* the locals of a processReader call; entered keeps the defines and the
\* conditional stack the call started with (history)
Reader(filename) ==
    [file |-> filename, lineNumber |-> 0, result |-> <<>>, locations |-> <<>>,
     entered |-> [defines |-> defines, stack |-> conditionalStack]]

Top == readers[Len(readers)]

Running == status = "running" /\ readers # <<>>

\* the line taken by this step, for the properties
Seen(op, filename, lineNumber, text) ==
    [op |-> op, file |-> filename, line |-> lineNumber, text |-> text,
     stack |-> conditionalStack, depth |-> Len(readers)]

----------------------------------------------------------------------------
(* Steps of processReader *)

\* the lines the outermost reader had gathered are returned with the error
Fail_PartialResult(err) ==
    /\ status' = "failed"
    /\ ret' = [lines |-> readers[1].result, locations |-> readers[1].locations,
               err |-> IncludeErrors(readers, Len(readers) - 1, err)]
    /\ readers' = <<>>

\* every enclosing processReader returns nil, nil, err
Fail(err) ==
    /\ status' = "failed"
    /\ ret' = [lines |-> <<>>, locations |-> <<>>,
               err |-> IncludeErrors(readers, Len(readers) - 1, err)]
    /\ readers' = <<>>

\* the handler returned these lines; the loop appends them (lines 76-77)
Emit(lineNumber, lines, locations) ==
    /\ readers' = [readers EXCEPT ![Len(readers)] =
                      [@ EXCEPT !.lineNumber = lineNumber,
                                !.result = @ \o lines,
                                !.locations = @ \o locations]]
    /\ UNCHANGED <<status, ret>>

\* ProcessFile called by the caller on a file system whose scripts are
\* written in vocabulary v: os.Open succeeds, then processReader starts
CallProcessFile(f, v) ==
    /\ status = "idle"
    /\ vocab' = v
    /\ status' = "running"
    /\ readers' = <<Reader(f)>>
    /\ ret' = [lines |-> <<>>, locations |-> <<>>, err |-> NoError]
    /\ last' = Seen("call", f, 0, <<>>)
    /\ UNCHANGED <<fs, eof, nread, defines, conditionalStack, opened, subVars, execVars>>

\* processLineWithConditionals, lines 168-170, and processIfdef
ProcessIfdef(line) ==
    LET trimmed == TrimSpace(line)
        n == Top.lineNumber + 1
        variableName == MatchConditional("#ifdef", trimmed)
        test == variableName \in DOMAIN defines
        active == IfdefActive(defines, conditionalStack, variableName)
    IN  /\ Running
        /\ line \in ScanLines(Top.file, Top.lineNumber)
        /\ HasPrefix(trimmed, <<"#ifdef", Space>>)
        /\ Scanned(Top.file, Top.lineNumber, line)
        /\ last' = Seen("line", Top.file, n, line)
        /\ IF variableName = None
             THEN /\ Fail(Errorf("invalid #ifdef syntax", Top.file, n))
                  /\ UNCHANGED <<conditionalStack, opened>>
             ELSE /\ conditionalStack' =
                        Push(conditionalStack, ConditionalBlock("ifdef", variableName, n, active))
                  /\ opened' = Append(opened, [file |-> Top.file, line |-> n, test |-> test,
                                               depth |-> Len(readers)])
                  /\ Emit(n, <<>>, <<>>)
        /\ UNCHANGED <<eof, vocab, defines, subVars, execVars>>

\* processLineWithConditionals, lines 173-175, and processIfndef
ProcessIfndef(line) ==
    LET trimmed == TrimSpace(line)
        n == Top.lineNumber + 1
        variableName == MatchConditional("#ifndef", trimmed)
        test == variableName \notin DOMAIN defines
        active == IfndefActive(defines, conditionalStack, variableName)
    IN  /\ Running
        /\ line \in ScanLines(Top.file, Top.lineNumber)
        /\ ~HasPrefix(trimmed, <<"#ifdef", Space>>)
        /\ HasPrefix(trimmed, <<"#ifndef", Space>>)
        /\ Scanned(Top.file, Top.lineNumber, line)
        /\ last' = Seen("line", Top.file, n, line)
        /\ IF variableName = None
             THEN /\ Fail(Errorf("invalid #ifndef syntax", Top.file, n))
                  /\ UNCHANGED <<conditionalStack, opened>>
             ELSE /\ conditionalStack' =
                        Push(conditionalStack, ConditionalBlock("ifndef", variableName, n, active))
                  /\ opened' = Append(opened, [file |-> Top.file, line |-> n, test |-> test,
                                               depth |-> Len(readers)])
                  /\ Emit(n, <<>>, <<>>)
        /\ UNCHANGED <<eof, vocab, defines, subVars, execVars>>

\* the line is none of the conditional directives (lines 168, 173, 178)
NotConditional(trimmed) ==
    /\ ~HasPrefix(trimmed, <<"#ifdef", Space>>)
    /\ ~HasPrefix(trimmed, <<"#ifndef", Space>>)
    /\ trimmed # <<"#end">>

\* processLineWithConditionals, lines 178-180, and processEnd
ProcessEnd(line) ==
    LET trimmed == TrimSpace(line)
        n == Top.lineNumber + 1
    IN  /\ Running
        /\ line \in ScanLines(Top.file, Top.lineNumber)
        /\ ~HasPrefix(trimmed, <<"#ifdef", Space>>)
        /\ ~HasPrefix(trimmed, <<"#ifndef", Space>>)
        /\ trimmed = <<"#end">>
        /\ Scanned(Top.file, Top.lineNumber, line)
        /\ last' = Seen("line", Top.file, n, line)
        /\ IF IsEmpty(conditionalStack)
             THEN /\ Fail(Errorf("#end without matching #ifdef or #ifndef", Top.file, n))
                  /\ UNCHANGED <<conditionalStack, opened>>
             ELSE IF PopFails(conditionalStack)
             THEN /\ Fail(Errorf("error processing #end", Top.file, n))
                  /\ UNCHANGED <<conditionalStack, opened>>
             ELSE /\ conditionalStack' = Pop(conditionalStack)
                  /\ opened' = SubSeq(opened, 1, Len(opened) - 1)
                  /\ Emit(n, <<>>, <<>>)
        /\ UNCHANGED <<eof, vocab, defines, subVars, execVars>>

\* processLineWithConditionals, lines 183-186: a line inside an inactive block
SkipLine(line) ==
    LET trimmed == TrimSpace(line)
        n == Top.lineNumber + 1
    IN  /\ Running
        /\ line \in ScanLines(Top.file, Top.lineNumber)
        /\ NotConditional(trimmed)
        /\ ~ShouldInclude(conditionalStack)
        /\ Scanned(Top.file, Top.lineNumber, line)
        /\ last' = Seen("line", Top.file, n, line)
        /\ Emit(n, <<>>, <<>>)
        /\ UNCHANGED <<eof, vocab, defines, conditionalStack, opened, subVars, execVars>>

\* the activity of the open blocks is not looked at
Live_Always(trimmed) == NotConditional(trimmed)

\* the line is live and is handed to processLine (lines 183-189)
Live(trimmed) == NotConditional(trimmed) /\ ShouldInclude(conditionalStack)

\* processLine, lines 97-99, and processDefine
ProcessDefine(line) ==
    LET trimmed == TrimSpace(line)
        n == Top.lineNumber + 1
        matches == MatchDefine(trimmed)
    IN  /\ Running
        /\ line \in ScanLines(Top.file, Top.lineNumber)
        /\ Live(trimmed)
        /\ HasPrefix(trimmed, <<"#define", Space>>)
        /\ Scanned(Top.file, Top.lineNumber, line)
        /\ last' = Seen("line", Top.file, n, line)
        /\ IF ~matches.ok
             THEN /\ Fail(Errorf("invalid #define syntax", Top.file, n))
                  /\ UNCHANGED defines
             ELSE IF DefinePanics(matches.value)
             THEN /\ status' = "panic"
                  /\ readers' = <<>>
                  /\ UNCHANGED <<ret, defines>>
             ELSE /\ defines' = SetDefineIn(defines, matches.name, DefineValue(matches.value))
                  /\ Emit(n, <<>>, <<>>)
        /\ UNCHANGED <<eof, vocab, conditionalStack, opened, subVars, execVars>>

\* processLine, lines 102-104, and processInclude up to the start of the
\* nested ProcessFile; the nested processReader then runs step by step
ProcessInclude(line) ==
    LET trimmed == TrimSpace(line)
        n == Top.lineNumber + 1
        path == MatchInclude(trimmed)
        includeFile == ResolveInclude(Top.file, path)
        including == [readers EXCEPT ![Len(readers)] = [@ EXCEPT !.lineNumber = n]]
    IN  /\ Running
        /\ line \in ScanLines(Top.file, Top.lineNumber)
        /\ Live(trimmed)
        /\ ~HasPrefix(trimmed, <<"#define", Space>>)
        /\ HasPrefix(trimmed, <<"#include", Space>>)
        /\ Scanned(Top.file, Top.lineNumber, line)
        /\ last' = Seen("line", Top.file, n, line)
        /\ IF path = None
             THEN Fail(Errorf("invalid #include syntax", Top.file, n))
             ELSE IF includeFile \notin FileNames
             THEN /\ status' = "failed"
                  /\ ret' = [lines |-> <<>>, locations |-> <<>>,
                             err |-> IncludeErrors(including, Len(including),
                                        Errorf("failed to open file", includeFile, 0))]
                  /\ readers' = <<>>
             ELSE /\ Len(readers) < MaxDepth
                  /\ readers' = Append(including, Reader(includeFile))
                  /\ UNCHANGED <<status, ret>>
        /\ UNCHANGED <<eof, vocab, defines, conditionalStack, opened, subVars, execVars>>

\* processLine, lines 106-115: a regular line
ProcessLine(line) ==
    LET trimmed == TrimSpace(line)
        n == Top.lineNumber + 1
    IN  /\ Running
        /\ line \in ScanLines(Top.file, Top.lineNumber)
        /\ Live(trimmed)
        /\ ~HasPrefix(trimmed, <<"#define", Space>>)
        /\ ~HasPrefix(trimmed, <<"#include", Space>>)
        /\ Scanned(Top.file, Top.lineNumber, line)
        /\ last' = Seen("line", Top.file, n, line)
        /\ \E order \in Orders(defines) :
              Emit(n, <<substituteVariables(defines, line, order)>>,
                   <<SourceLocation(Top.file, n)>>)
        /\ UNCHANGED <<eof, vocab, defines, conditionalStack, opened, subVars, execVars>>

\* open blocks are not reported
ValidateConditionals_Skipped(blocks, filename) == NoError

\* ValidateConditionals
ValidateConditionals(blocks, filename) ==
    IF ~IsEmpty(blocks)
      THEN Errorf("unclosed conditional blocks (missing #end)", filename, 0)
      ELSE NoError

\* processReader, lines 80-89, and the return to the caller: to
\* processInclude (line 170), whose lines the including loop appends, or to
\* the caller of ProcessFile
EndOfFile ==
    LET err == ValidateConditionals(conditionalStack, Top.file)
        k == Len(readers)
    IN  /\ Running
        /\ ScanEnds(Top.file, Top.lineNumber)
        /\ eof' = eof \cup {Top.file}
        /\ last' = Seen("eof", Top.file, Top.lineNumber, <<>>)
        /\ IF err # NoError
             THEN Fail(err)
             ELSE IF k = 1
             THEN /\ status' = "done"
                  /\ ret' = [lines |-> Top.result, locations |-> Top.locations,
                             err |-> NoError]
                  /\ readers' = <<>>
             ELSE /\ readers' = [SubSeq(readers, 1, k - 1) EXCEPT ![k - 1] =
                        [@ EXCEPT !.result = @ \o Top.result,
                                  !.locations = @ \o Top.locations]]
                  /\ UNCHANGED <<status, ret>>
        /\ UNCHANGED <<fs, vocab, nread, defines, conditionalStack, opened, subVars, execVars>>

----------------------------------------------------------------------------
(* The Preprocessor's define API and substituteVariables called directly *)

SubstSymbols == {"A", "a", Space, "$"}

SubstNames == {<<"A">>, <<"a">>}

SeqsUpTo(S, n) == UNION {[1..k -> S] : k \in 0..n}

NoDefines == [name \in {} |-> [Name |-> name, Value |-> <<>>]]

SetDefine(name, value) ==
    /\ status = "idle"
    /\ defines' = SetDefineIn(defines, name, value)
    /\ subIn' = None /\ subOut' = None
    /\ UNCHANGED <<expVars, execVars>>

ClearDefines ==
    /\ status = "idle"
    /\ defines # NoDefines
    /\ defines' = NoDefines
    /\ subIn' = None /\ subOut' = None
    /\ UNCHANGED <<expVars, execVars>>

Substitute(line) ==
    /\ status = "idle"
    /\ subIn' = line
    /\ \E order \in Orders(defines) :
          subOut' = substituteVariables(defines, line, order)
    /\ UNCHANGED <<defines, expVars, execVars>>

----------------------------------------------------------------------------
(* Specifications *)

InitExpander ==
    /\ fs = [f \in FileNames |-> <<>>]
    /\ eof = {}
    /\ defines = NoDefines
    /\ conditionalStack = <<>>
    /\ readers = <<>>
    /\ status = "idle"
    /\ ret = [lines |-> <<>>, locations |-> <<>>, err |-> NoError]
    /\ vocab = {}
    /\ nread = 0
    /\ last = [op |-> "none", file |-> <<>>, line |-> 0, text |-> <<>>,
               stack |-> <<>>, depth |-> 0]
    /\ opened = <<>>
    /\ subIn = None
    /\ subOut = None

Init ==
    /\ InitExpander
    /\ endOnError = FALSE
    /\ stmtList = <<>>
    /\ stmtIndex = 0
    /\ calls = <<>>
    /\ execRet = "none"

Next ==
    \/ \E v \in Vocabularies : CallProcessFile(MainFile, v)
    \/ \E line \in Lines : ProcessIfdef(line)
    \/ \E line \in Lines : ProcessIfndef(line)
    \/ \E line \in Lines : ProcessEnd(line)
    \/ \E line \in Lines : SkipLine(line)
    \/ \E line \in Lines : ProcessDefine(line)
    \/ \E line \in Lines : ProcessInclude(line)
    \/ \E line \in Lines : ProcessLine(line)
    \/ EndOfFile

Spec == Init /\ [][Next]_vars

NextSubst ==
    \/ \E name \in SubstNames : \E value \in SeqsUpTo(SubstSymbols, MaxValLen) :
          SetDefine(name, value)
    \/ ClearDefines
    \/ \E line \in SeqsUpTo(SubstSymbols, MaxLineLen) : Substitute(line)

SpecSubst == Init /\ [][NextSubst]_vars

----------------------------------------------------------------------------
(* Processor.parseStatementsFromLines *)

SchemaCommands ==
    {"@schema-all", "@schema-tables", "@schema-views", "@schema-procedures",
     "@schema-functions", "@drivers"}

\* only a line that is a command name and nothing else is recognised
IsSchemaCommand_ExactOnly(line) ==
    TrimSpace(line) \in {<<cmd>> : cmd \in SchemaCommands}

\* schema.IsSchemaCommand: the trimmed line starts with a command name
IsSchemaCommand(line) ==
    LET trimmed == TrimSpace(line)
    IN  trimmed # <<>> /\ trimmed[1] \in SchemaCommands

\* strings.ToLower, symbol by symbol
ToLowerSymbol(sym) ==
    CASE sym = "GO" -> "go"
      [] sym = "A" -> "a"
      [] sym = "B" -> "b"
      [] sym = "SELECT" -> "select"
      [] OTHER -> sym

ToLower(line) == [i \in DOMAIN line |-> ToLowerSymbol(line[i])]

\* a bare `go` is not taken as a delimiter
IsDelimiterLine_PrefixOnly(line) ==
    HasPrefix(TrimSpace(ToLower(line)), <<"go", Space>>)

\* parseStatementsFromLines, lines 240-241
IsDelimiterLine(line) ==
    LET t == TrimSpace(ToLower(line))
    IN  HasPrefix(t, <<"go", Space>>) \/ t = <<"go">>

Statement(sql, startLine, endLine, location) ==
    [SQL |-> sql, StartLine |-> startLine, EndLine |-> endLine,
     FileName |-> location.FileName, Location |-> location]

\* the loop of parseStatementsFromLines from the line with index k - 1;
\* st holds statements, currentStatement, startLine and startLocation
RECURSIVE ParseFrom(_, _, _, _)
ParseFrom(lines, locations, k, st) ==
    LET i == k - 1
        line == lines[k]
        flushed == IF Len(st.currentStatement) > 0
                     THEN Append(st.statements,
                                 Statement(TrimSpace(st.currentStatement), st.startLine, i,
                                           st.startLocation))
                     ELSE st.statements
        location == IF i < Len(locations) THEN locations[k] ELSE st.startLocation
    IN  IF k > Len(lines)
          THEN IF Len(st.currentStatement) > 0
                 THEN Append(st.statements,
                             Statement(TrimSpace(st.currentStatement), st.startLine,
                                       Len(lines), st.startLocation))
                 ELSE st.statements
        ELSE IF IsSchemaCommand(line)
          THEN ParseFrom(lines, locations, k + 1,
                 [st EXCEPT !.statements =
                                Append(flushed, Statement(TrimSpace(line), i + 1, i + 1, location)),
                            !.currentStatement = <<>>])
        ELSE IF IsDelimiterLine(line)
          THEN ParseFrom(lines, locations, k + 1,
                 [st EXCEPT !.statements = flushed, !.currentStatement = <<>>])
        ELSE ParseFrom(lines, locations, k + 1,
                 [st EXCEPT !.currentStatement = @ \o line \o <<Newline>>,
                            !.startLine = IF Len(st.currentStatement) = 0 THEN i + 1 ELSE @,
                            !.startLocation =
                                IF Len(st.currentStatement) = 0 /\ i < Len(locations)
                                  THEN locations[k] ELSE @])

parseStatementsFromLines(lines, locations) ==
    ParseFrom(lines, locations, 1,
              [statements |-> <<>>, currentStatement |-> <<>>, startLine |-> 0,
               startLocation |-> SourceLocation(<<>>, 0)])

\* Processor.ProcessFile and ProcessStdin after the preprocessor returned r:
\* the statements handed to executeStatements, none when r holds an error
StatementsToExecute(r) ==
    IF r.err # NoError THEN <<>>
    ELSE parseStatementsFromLines(r.lines, r.locations)

----------------------------------------------------------------------------
(* Processor.executeStatements *)

\* the arguments of p.executor.Execute for the i-th statement of the list
ExecuteCall(statements, i) ==
    [sql |-> statements[i].SQL,
     lineNumber |-> statements[i].Location.OriginalLine,
     fileName |-> statements[i].Location.OriginalFile]

\* the statement is passed over: its text is blank
SkipsStatement(stmt) == TrimSpace(stmt.SQL) = <<>>

\* an error never ends the run, whatever the setting
StopsOnError_Never(failed) == FALSE

\* lines 292 and 310: the error ends the run when endOnError is set
StopsOnError(failed) == failed /\ endOnError

Executing == execRet = "running" /\ stmtIndex \in DOMAIN stmtList

\* lines 283-287: an empty statement is passed over
SkipStatement ==
    /\ Executing
    /\ SkipsStatement(stmtList[stmtIndex])
    /\ stmtIndex' = stmtIndex + 1
    /\ UNCHANGED <<endOnError, stmtList, calls, execRet, expVars, defines, subVars>>

\* lines 289-299: a schema command goes to the introspector, which gets no
\* location; failed is what ProcessSchemaCommand returned
ProcessSchemaCommand(failed) ==
    /\ Executing
    /\ ~SkipsStatement(stmtList[stmtIndex])
    /\ IsSchemaCommand(stmtList[stmtIndex].SQL)
    /\ calls' = Append(calls, [index |-> stmtIndex, target |-> "introspector",
                               args |-> [sql |-> stmtList[stmtIndex].SQL,
                                         lineNumber |-> 0, fileName |-> <<>>],
                               failed |-> failed])
    /\ IF StopsOnError(failed)
         THEN execRet' = "schema command error" /\ UNCHANGED stmtIndex
         ELSE stmtIndex' = stmtIndex + 1 /\ UNCHANGED execRet
    /\ UNCHANGED <<endOnError, stmtList, expVars, defines, subVars>>

\* lines 301-312: the statement goes to the executor and its result to the
\* formatter; failed is result.Error # nil, formatFailed what FormatResult
\* returned
Execute(failed, formatFailed) ==
    /\ Executing
    /\ ~SkipsStatement(stmtList[stmtIndex])
    /\ ~IsSchemaCommand(stmtList[stmtIndex].SQL)
    /\ calls' = Append(calls, [index |-> stmtIndex, target |-> "executor",
                               args |-> ExecuteCall(stmtList, stmtIndex),
                               failed |-> failed])
    /\ IF formatFailed
         THEN execRet' = "error formatting result" /\ UNCHANGED stmtIndex
         ELSE IF StopsOnError(failed)
           THEN execRet' = "execution stopped due to error" /\ UNCHANGED stmtIndex
           ELSE stmtIndex' = stmtIndex + 1 /\ UNCHANGED execRet
    /\ UNCHANGED <<endOnError, stmtList, expVars, defines, subVars>>

\* line 315: the loop is over
ReturnNil ==
    /\ execRet = "running"
    /\ stmtIndex > Len(stmtList)
    /\ execRet' = "nil"
    /\ UNCHANGED <<endOnError, stmtList, stmtIndex, calls, expVars, defines, subVars>>

\* the lines a script hands to the assembler, and the locations the
\* preprocessor pairs with them
ExecLines == {Select1, GoLine, SchemaLine, BlankLine}

LocationsOf(lines) == [k \in DOMAIN lines |-> SourceLocation(MainFile, k)]

\* executeStatements is called with the statements of a script, by a
\* Processor with either setting of endOnError
InitExec ==
    /\ InitExpander
    /\ endOnError \in BOOLEAN
    /\ \E lines \in SeqsUpTo(ExecLines, MaxLines) :
          stmtList = parseStatementsFromLines(lines, LocationsOf(lines))
    /\ stmtIndex = 1
    /\ calls = <<>>
    /\ execRet = "running"

NextExec ==
    \/ SkipStatement
    \/ \E failed \in BOOLEAN : ProcessSchemaCommand(failed)
    \/ \E failed, formatFailed \in BOOLEAN : Execute(failed, formatFailed)
    \/ ReturnNil

SpecExec == InitExec /\ [][NextExec]_vars

----------------------------------------------------------------------------
(* Processor.ProcessDirectory: one Processor.ProcessFile call for each file *)

\* the Preprocessor of the file before is used again
NewPreprocessor_Shared ==
    [defines |-> defines, conditionalStack |-> conditionalStack]

\* preprocessor.NewPreprocessor: no defines, the conditional stack not yet
\* created
NewPreprocessor ==
    [defines |-> NoDefines, conditionalStack |-> <<>>]

\* the lines the scripts of the directory are written in
BatchVocabulary == {SelectA, DefineA, IfdefA, EndLine}

\* ProcessDirectory, lines 189-197: the file before was processed, or it
\* failed and endOnError is not set; Processor.ProcessFile makes a
\* Preprocessor for the next file f and calls its ProcessFile
ProcessNextFile(f) ==
    /\ status = "done" \/ (status = "failed" /\ ~endOnError)
    /\ f \notin eof /\ fs[f] = <<>>
    /\ defines' = NewPreprocessor.defines
    /\ conditionalStack' = NewPreprocessor.conditionalStack
    /\ opened' = <<>>
    /\ status' = "running"
    /\ readers' = <<[Reader(f) EXCEPT !.entered =
                        [defines |-> NewPreprocessor.defines,
                         stack |-> NewPreprocessor.conditionalStack]]>>
    /\ ret' = [lines |-> <<>>, locations |-> <<>>, err |-> NoError]
    /\ last' = Seen("call", f, 0, <<>>)
    /\ UNCHANGED <<fs, eof, vocab, nread, subVars, execVars>>

InitBatch ==
    /\ InitExpander
    /\ endOnError \in BOOLEAN
    /\ stmtList = <<>>
    /\ stmtIndex = 0
    /\ calls = <<>>
    /\ execRet = "none"

NextBatch ==
    \/ CallProcessFile(MainFile, BatchVocabulary)
    \/ ProcessNextFile(OtherFile)
    \/ \E line \in BatchVocabulary : ProcessIfdef(line)
    \/ \E line \in BatchVocabulary : ProcessEnd(line)
    \/ \E line \in BatchVocabulary : SkipLine(line)
    \/ \E line \in BatchVocabulary : ProcessDefine(line)
    \/ \E line \in BatchVocabulary : ProcessLine(line)
    \/ EndOfFile

SpecBatch == InitBatch /\ [][NextBatch]_vars

----------------------------------------------------------------------------
(* A second ProcessFile call on the same Preprocessor *)

\* the lines the scripts of the two calls are written in
ReuseVocabulary == {SelectA, IfdefA, EndLine, IfdefTwo, IncludeMissing}

\* the caller calls ProcessFile for file f on the Preprocessor whose call
\* before has returned: the struct keeps its defines and its
\* conditionalStack, which initConditionals leaves as it is when not nil
CallProcessFileAgain(f) ==
    /\ status \in {"done", "failed"}
    /\ f \notin eof /\ fs[f] = <<>>
    /\ status' = "running"
    /\ readers' = <<Reader(f)>>
    /\ ret' = [lines |-> <<>>, locations |-> <<>>, err |-> NoError]
    /\ last' = Seen("call", f, 0, <<>>)
    /\ UNCHANGED <<fs, eof, vocab, nread, defines, conditionalStack, opened, subVars,
                   execVars>>

NextReuse ==
    \/ CallProcessFile(MainFile, ReuseVocabulary)
    \/ CallProcessFileAgain(OtherFile)
    \/ \E line \in ReuseVocabulary : ProcessIfdef(line)
    \/ \E line \in ReuseVocabulary : ProcessEnd(line)
    \/ \E line \in ReuseVocabulary : SkipLine(line)
    \/ \E line \in ReuseVocabulary : ProcessInclude(line)
    \/ \E line \in ReuseVocabulary : ProcessLine(line)
    \/ EndOfFile

SpecReuse == Init /\ [][NextReuse]_vars

----------------------------------------------------------------------------
(* Vocabulary of the properties *)

\* the line opens a conditional block / closes one, as the dispatcher of
\* processLineWithConditionals reads it
OpensBlock(line) ==
    \/ HasPrefix(TrimSpace(line), <<"#ifdef", Space>>)
    \/ HasPrefix(TrimSpace(line), <<"#ifndef", Space>>)

ClosesBlock(line) == TrimSpace(line) = <<"#end">>

\* the conditional directives of the script are balanced: every #end closes
\* a block the script opened before, and no block is left open at the end
RECURSIVE BalancedFrom(_, _, _)
BalancedFrom(script, k, depth) ==
    IF k > Len(script) THEN depth = 0
    ELSE IF OpensBlock(script[k]) THEN BalancedFrom(script, k + 1, depth + 1)
    ELSE IF ClosesBlock(script[k]) THEN depth > 0 /\ BalancedFrom(script, k + 1, depth - 1)
    ELSE BalancedFrom(script, k + 1, depth)

Balanced(script) == BalancedFrom(script, 1, 0)

\* this step is the end of an included file: processInclude returns
IncludeReturns ==
    /\ Running
    /\ Len(readers) > 1
    /\ last'.op = "eof"

\* this step handed a line to processLine, which returned it as content
EmitsContent ==
    /\ Running
    /\ status' = "running"
    /\ Len(readers') = Len(readers)
    /\ readers'[Len(readers)].result # Top.result

\* substitution in one left-to-right pass over the line: every whole-token
\* occurrence of a defined name becomes the value of the name, and the values
\* put in are not looked at again
RECURSIVE SinglePassFrom(_, _, _)
SinglePassFrom(defs, line, i) ==
    IF i > Len(line) THEN <<>>
    ELSE IF \E name \in DOMAIN defs : MatchAt(line, i, name)
      THEN LET name == CHOOSE x \in DOMAIN defs : MatchAt(line, i, x)
           IN  defs[name].Value \o SinglePassFrom(defs, line, i + Len(name))
    ELSE <<line[i]>> \o SinglePassFrom(defs, line, i + 1)

SinglePass(defs, line) == SinglePassFrom(defs, line, 1)

\* the value of one defined name holds another defined name as a whole token
Chained(defs) ==
    \E n1, n2 \in DOMAIN defs :
        /\ n1 # n2
        /\ \E i \in DOMAIN defs[n1].Value : MatchAt(defs[n1].Value, i, n2)

\* a line whose leading token is #ifdef or #ifndef and whose name is
\* missing or is followed by a further token
MalformedConditional(line) ==
    LET t == TrimSpace(line)
    IN  /\ t # <<>>
        /\ t[1] \in {"#ifdef", "#ifndef"}
        /\ Len(t) > 1 => IsSpace(t[2])
        /\ MatchConditional(t[1], t) = None

SyntaxErrors ==
    {"invalid #ifdef syntax", "invalid #ifndef syntax", "invalid #define syntax",
     "invalid #include syntax"}

\* this step took a line of a script while every open block was active
TakesLiveLine ==
    /\ Running
    /\ last'.op = "line"
    /\ ShouldInclude(conditionalStack)

\* a line whose leading token is #define and that has no name, or a name and
\* then nothing but an optional // comment
LacksNameOrValue(line) ==
    LET t == TrimSpace(line)
        a == SkipSpace(t, 2)
        b == SkipWord(t, a)
        v == SkipSpace(t, b)
    IN  /\ t # <<>>
        /\ t[1] = "#define"
        /\ \/ a > Len(t)
           \/ a > 2 /\ b > a /\ v > Len(t)
           \/ a > 2 /\ b > a /\ v > b /\ v <= Len(t) /\ t[v] = "//"

----------------------------------------------------------------------------
(* Properties *)

\* C1: when an included file with balanced conditionals ends, the #include
\* succeeds and the lines and locations of the included file are appended,
\* in order, to what the including file had produced before the #include
C1_IncludeSplices ==
    [][(IncludeReturns /\ Balanced(fs[Top.file])) =>
         /\ status' = "running"
         /\ Len(readers') = Len(readers) - 1
         /\ readers'[Len(readers')].result =
                readers[Len(readers) - 1].result \o Top.result
         /\ readers'[Len(readers')].locations =
                readers[Len(readers) - 1].locations \o Top.locations]_vars

Scenario2 ==
    /\ status = "done"
    /\ fs[MainFile] = <<Select1, IncludeInc>>
    /\ fs[IncFile] = <<Select2, GoLine>>

\* C2 as stated: main `SELECT 1;` + #include of (`SELECT 2;`, `go`) gives two
\* Statements, the second one from the included file, line 1
C2_TwoStatements ==
    Scenario2 =>
        LET statements == parseStatementsFromLines(ret.lines, ret.locations)
        IN  /\ Len(statements) = 2
            /\ statements[2].Location.FileName = IncFile
            /\ statements[2].Location.LineNumber = 1

\* C2 amended: the scenario gives one Statement, `SELECT 1;` and `SELECT 2;`
\* joined by a line break, whose origin is the main file, line 1; the line
\* `SELECT 2;` itself is located at the included file, line 1
C2_OneStatement ==
    Scenario2 =>
        LET statements == parseStatementsFromLines(ret.lines, ret.locations)
        IN  /\ Len(statements) = 1
            /\ statements[1].SQL = Select1 \o <<Newline>> \o Select2
            /\ statements[1].Location = SourceLocation(MainFile, 1)
            /\ ret.lines = <<Select1, Select2, GoLine>>
            /\ ret.locations[2] = SourceLocation(IncFile, 1)

C2_Witness == Scenario2 /\ ret.err = NoError /\ Len(ret.lines) = 3

\* C3: with defines where one value holds another defined name, the result
\* of substituteVariables is the single-pass substitution of the line
C3_NoRescan ==
    (subOut # None /\ Chained(defines)) => subOut = SinglePass(defines, subIn)

\* C4: the line a content line is emitted as does not depend on the order in
\* which substituteVariables visits the defines
C4_OrderIndependent ==
    [][EmitsContent =>
         \A order \in Orders(defines) :
            readers'[Len(readers)].result =
                Append(Top.result, substituteVariables(defines, last'.text, order))]_vars

\* C5: substituteVariables replaces exactly the whole-token occurrences of
\* the defined names by their values and leaves the rest of the line as it is
C5_WholeToken ==
    subOut # None => subOut = SinglePass(defines, subIn)

\* C6: no content line is emitted while a block whose own test is false is
\* open, and a conditional directive met while not live still pushes or pops
\* exactly one frame
C6_OuterFalseSuppresses ==
    [][/\ EmitsContent => \A i \in DOMAIN opened : opened[i].test
       /\ (Running /\ status' = "running" /\ last'.op = "line"
              /\ ~ShouldInclude(conditionalStack))
            => /\ OpensBlock(last'.text) =>
                    Len(conditionalStack') = Len(conditionalStack) + 1
               /\ ClosesBlock(last'.text) =>
                    conditionalStack' = SubSeq(conditionalStack, 1, Len(conditionalStack) - 1)
               /\ Len(readers') = Len(readers)
               /\ readers'[Len(readers)].result = Top.result]_vars

C6_Witness ==
    /\ status = "done"
    /\ fs[MainFile] = <<IfdefA, IfndefA, EndLine, Select1, EndLine>>
    /\ ret.lines = <<>>
    /\ ret.err = NoError

\* C7: the frames on the stack are the open blocks, oldest first; a frame is
\* active iff its own test was true when it was pushed and every frame below
\* it is active; ShouldInclude is true iff every open block's test was true
C7_FrameActive ==
    /\ Len(conditionalStack) = Len(opened)
    /\ \A i \in DOMAIN conditionalStack :
          /\ conditionalStack[i].StartLine = opened[i].line
          /\ conditionalStack[i].Active =
                (opened[i].test /\ \A j \in 1..(i - 1) : conditionalStack[j].Active)
    /\ ShouldInclude(conditionalStack) = (\A i \in DOMAIN opened : opened[i].test)

C7_Witness ==
    /\ Len(conditionalStack) = 2
    /\ conditionalStack[1].Type = "ifndef" /\ conditionalStack[1].Active
    /\ conditionalStack[2].Type = "ifndef" /\ ~conditionalStack[2].Active
    /\ HasDefine(defines, conditionalStack[1].Variable)
    /\ ~ShouldInclude(conditionalStack)

\* the reader that met the end of its file had opened a block that is still open
OwnBlockOpen ==
    /\ last.op = "eof"
    /\ \E i \in DOMAIN opened : opened[i].file = last.file /\ opened[i].depth = last.depth

\* C8: a script that ends with a block of its own still open fails with the
\* unclosed-block error naming the script, and nothing is returned
C8_UnclosedFails ==
    OwnBlockOpen =>
        /\ status = "failed"
        /\ ret.err.kind = "unclosed conditional blocks (missing #end)"
        /\ ret.err.file = last.file
        /\ ret.lines = <<>> /\ ret.locations = <<>>

C8_Witness ==
    /\ OwnBlockOpen
    /\ status = "failed"
    /\ last.file = IncFile
    /\ ret.err.via # <<>>

\* the latest line is an #end met on an empty stack
EndOnEmptyStack ==
    last.op = "line" /\ ClosesBlock(last.text) /\ last.stack = <<>>

\* C9: #end on an empty stack fails with the error of that file and line,
\* returns no lines and leaves the stack empty
C9_EndWithoutOpen ==
    EndOnEmptyStack =>
        /\ status = "failed"
        /\ ret.err.kind = "#end without matching #ifdef or #ifndef"
        /\ ret.err.file = last.file /\ ret.err.line = last.line
        /\ ret.lines = <<>> /\ ret.locations = <<>>
        /\ conditionalStack = <<>>

C9_Witness == EndOnEmptyStack /\ status = "failed" /\ last.line = 2

\* C10: a line with #ifdef or #ifndef as leading token and a malformed name
\* fails ProcessFile with a syntax error of that file and line
C10_MalformedOpenFails ==
    (last.op = "line" /\ MalformedConditional(last.text)) =>
        /\ status = "failed"
        /\ ret.err.kind \in SyntaxErrors
        /\ ret.err.file = last.file /\ ret.err.line = last.line

\* a line of the form #define NAME VALUE [// comment] with a name and a value
WellFormedDefine(line) ==
    LET t == TrimSpace(line)
        a == SkipSpace(t, 2)
        b == SkipWord(t, a)
        v == SkipSpace(t, b)
    IN  /\ t # <<>>
        /\ t[1] = "#define"
        /\ a > 2 /\ b > a /\ v > b /\ v <= Len(t)
        /\ t[v] # "//"

\* index of the first // at or after i that is not inside quotes, or
\* Len(t) + 1; q is the quote character that is open, "" when none is
RECURSIVE CommentStart(_, _, _)
CommentStart(t, i, q) ==
    IF i > Len(t) THEN i
    ELSE IF q = "" /\ t[i] = "//" THEN i
    ELSE IF q = "" /\ t[i] \in {Quote, "'"} THEN CommentStart(t, i + 1, t[i])
    ELSE IF t[i] = q THEN CommentStart(t, i + 1, "")
    ELSE CommentStart(t, i + 1, q)

\* the name of a well-formed #define line
NameOf(line) ==
    LET t == TrimSpace(line)
        a == SkipSpace(t, 2)
    IN  SubSeq(t, a, SkipWord(t, a) - 1)

\* the text after the name, without the trailing comment, trimmed
ValueTextOf(line) ==
    LET t == TrimSpace(line)
        b == SkipWord(t, SkipSpace(t, 2))
    IN  TrimSpace(SubSeq(t, b, CommentStart(t, b, "") - 1))

\* the text starts and ends with the same quote character
FullyQuoted(text) ==
    /\ text # <<>>
    /\ text[1] \in {Quote, "'"}
    /\ text[Len(text)] = text[1]

\* the value a well-formed #define line is to store
ValueOf(line) ==
    LET text == ValueTextOf(line)
    IN  IF FullyQuoted(text) THEN SubSeq(text, 2, Len(text) - 1) ELSE text

\* the value of the #define line is a quoted string that holds //
QuotedSlashes(line) ==
    /\ WellFormedDefine(line)
    /\ FullyQuoted(ValueTextOf(line))
    /\ \E i \in DOMAIN ValueTextOf(line) : ValueTextOf(line)[i] = "//"

\* the location names a line of a script that was read, twice the same way
PhysicalLocation(location) ==
    /\ location.FileName \in FileNames
    /\ location.LineNumber \in 1..Len(fs[location.FileName])
    /\ location.OriginalFile = location.FileName
    /\ location.OriginalLine = location.LineNumber

\* lines and locations go in pairs, and every location is physical
PairedLocations(lines, locations) ==
    /\ Len(lines) = Len(locations)
    /\ \A k \in DOMAIN locations : PhysicalLocation(locations[k])
    /\ defines = NoDefines =>
          \A k \in DOMAIN locations :
             lines[k] = fs[locations[k].FileName][locations[k].LineNumber]

\* the trimmed line begins with one of the directive keywords
DirectiveLine(line) ==
    TrimSpace(line) # <<>> /\ TrimSpace(line)[1] \in Keywords

\* this step took a line that is no conditional directive while a block
\* whose own test was false was open
TakesSuppressedLine ==
    /\ Running
    /\ last'.op = "line"
    /\ \E i \in DOMAIN opened : ~opened[i].test
    /\ \/ TrimSpace(last'.text) = <<>>
       \/ TrimSpace(last'.text)[1] \notin {"#ifdef", "#ifndef", "#end"}

\* the lines a reader has emitted stay as they were emitted
KeepsEmitted ==
    \A i \in DOMAIN readers' :
        i <= Len(readers) =>
            /\ Len(readers'[i].result) >= Len(readers[i].result)
            /\ SubSeq(readers'[i].result, 1, Len(readers[i].result)) = readers[i].result

\* the defines differ at most in the name the line defines
DefinesOnly(line) ==
    /\ DirectiveLine(line) /\ TrimSpace(line)[1] = "#define"
    /\ DOMAIN defines' = DOMAIN defines \cup {NameOf(line)}
    /\ \A n \in DOMAIN defines : n # NameOf(line) => defines'[n] = defines[n]

\* this step took a live #include line whose target does not exist
IncludesMissingFile ==
    /\ TakesLiveLine
    /\ DirectiveLine(last'.text) /\ TrimSpace(last'.text)[1] = "#include"
    /\ MatchInclude(TrimSpace(last'.text)) # None
    /\ MatchInclude(TrimSpace(last'.text)) \notin FileNames

\* this step failed inside an included file
FailsInIncluded ==
    /\ Running
    /\ Len(readers) > 1
    /\ status' = "failed"

\* the #include lines being expanded, innermost first
IncludeChain ==
    [j \in 1..(Len(readers) - 1) |->
        [file |-> readers[Len(readers) - j].file,
         line |-> readers[Len(readers) - j].lineNumber]]

\* the error was wrapped at these lines, and each of them is an #include
\* line of the scripts read
WrappedAt(err, chain) ==
    /\ err.via = chain
    /\ \A j \in DOMAIN chain :
          /\ chain[j].line \in 1..Len(fs'[chain[j].file])
          /\ HasPrefix(TrimSpace(fs'[chain[j].file][chain[j].line]), <<"#include", Space>>)

\* a batch delimiter: trimmed and in lower case the line is `go`, or begins
\* with `go` followed by a whitespace character
DelimiterLine(line) ==
    LET t == TrimSpace(ToLower(line))
    IN  /\ t # <<>>
        /\ t[1] = "go"
        /\ Len(t) > 1 => IsSpace(t[2])

\* a script with no preprocessor directives and no introspection lines
PlainScript(script) ==
    \A k \in DOMAIN script :
        /\ ~DirectiveLine(script[k])
        /\ ~IsSchemaCommand(script[k])

\* the lines joined by line breaks
RECURSIVE JoinLines(_)
JoinLines(lines) ==
    IF lines = <<>> THEN <<>>
    ELSE IF Len(lines) = 1 THEN lines[1]
    ELSE lines[1] \o <<Newline>> \o JoinLines(Tail(lines))

\* the script split on its delimiter lines, from line k on: segment holds
\* the lines met since the last delimiter, the first of them at line first
RECURSIVE SplitFrom(_, _, _, _)
SplitFrom(script, k, segment, first) ==
    LET flushed == IF segment = <<>> THEN <<>>
                   ELSE <<[text |-> TrimSpace(JoinLines(segment)), first |-> first]>>
    IN  IF k > Len(script) THEN flushed
        ELSE IF DelimiterLine(script[k])
          THEN flushed \o SplitFrom(script, k + 1, <<>>, 0)
        ELSE SplitFrom(script, k + 1, Append(segment, script[k]),
                       IF segment = <<>> THEN k ELSE first)

SplitOnDelimiters(script) == SplitFrom(script, 1, <<>>, 0)

\* C11: a live line with #define as leading token that lacks a name or a
\* value fails ProcessFile with the #define syntax error of that file and
\* line, and stores no define
C11_IncompleteDefineFails ==
    [][(TakesLiveLine /\ LacksNameOrValue(last'.text)) =>
         /\ status' = "failed"
         /\ ret'.err.kind = "invalid #define syntax"
         /\ ret'.err.file = last'.file /\ ret'.err.line = last'.line
         /\ ret'.lines = <<>>
         /\ defines' = defines]_vars

\* C12: a live well-formed #define line stores, under its name, the text
\* after the name without the trailing comment, trimmed, and with one layer
\* of quotes removed when that text starts and ends with the same quote
C12_StoredValue ==
    [][(TakesLiveLine /\ WellFormedDefine(last'.text)) =>
         /\ status' = "running"
         /\ NameOf(last'.text) \in DOMAIN defines'
         /\ defines'[NameOf(last'.text)].Value = ValueOf(last'.text)]_vars

\* C13: a live #define line whose value is a quoted string holding // stores
\* the whole quoted content, the // and what follows it included
C13_SlashesInQuotes ==
    [][(TakesLiveLine /\ QuotedSlashes(last'.text)) =>
         /\ NameOf(last'.text) \in DOMAIN defines'
         /\ \E i \in DOMAIN defines'[NameOf(last'.text)].Value :
                defines'[NameOf(last'.text)].Value[i] = "//"
         /\ defines'[NameOf(last'.text)].Value =
                SubSeq(ValueTextOf(last'.text), 2, Len(ValueTextOf(last'.text)) - 1)]_vars

\* C14: an emitted line is located at the file being read and at the number
\* of lines read from it, the line itself included; every line read counts
\* one, whatever it is; the lines of an included file keep their locations
\* and do not move the line count of the including file; lines and
\* locations have one length and name lines of the scripts
C14_PhysicalLocations ==
    /\ [][/\ EmitsContent =>
               /\ readers'[Len(readers)].locations =
                     Append(Top.locations,
                            [FileName |-> Top.file, LineNumber |-> Top.lineNumber + 1,
                             OriginalFile |-> Top.file, OriginalLine |-> Top.lineNumber + 1])
               /\ fs'[Top.file][Top.lineNumber + 1] = last'.text
          /\ (Running /\ last'.op = "line" /\ readers' # <<>>) =>
               /\ last'.line = Top.lineNumber + 1
               /\ readers'[Len(readers)].lineNumber = Top.lineNumber + 1
          /\ (IncludeReturns /\ status' = "running") =>
               /\ readers'[Len(readers')].lineNumber = readers[Len(readers) - 1].lineNumber
               /\ readers'[Len(readers')].locations =
                     readers[Len(readers) - 1].locations \o Top.locations]_vars
    /\ [](/\ PairedLocations(ret.lines, ret.locations)
          /\ \A i \in DOMAIN readers :
                PairedLocations(readers[i].result, readers[i].locations))

C14_Witness ==
    /\ status = "done"
    /\ fs[MainFile] = <<Select1, IncludeInc, Select2>>
    /\ fs[IncFile] = <<GoLine, Select2>>
    /\ ret.locations = <<SourceLocation(MainFile, 1), SourceLocation(IncFile, 1),
                         SourceLocation(IncFile, 2), SourceLocation(MainFile, 3)>>

\* C15: a line whose trimmed text begins with a directive keyword is never
\* emitted as an output line
C15_DirectivesNotEmitted ==
    [][EmitsContent => ~DirectiveLine(last'.text)]_vars

\* C16: a line that is no conditional directive, met while a block with a
\* false test is open, changes nothing but the line count: no define is
\* stored, no file is included, no error is raised, nothing is emitted
C16_SuppressedLineNoEffect ==
    [][TakesSuppressedLine =>
         /\ status' = "running"
         /\ ret' = ret
         /\ defines' = defines
         /\ conditionalStack' = conditionalStack
         /\ Len(readers') = Len(readers)
         /\ readers'[Len(readers)].file = Top.file
         /\ readers'[Len(readers)].result = Top.result
         /\ readers'[Len(readers)].locations = Top.locations]_vars

C16_Witness ==
    /\ status = "done"
    /\ fs[MainFile] = <<IfdefA, DefineA, IncludeMissing, EndLine>>
    /\ defines = NoDefines
    /\ ret.err = NoError
    /\ ret.lines = <<>>

\* C17: the defines change only on a live #define line and only in the name
\* it defines; lines already emitted keep their text; a content line is
\* emitted with the values the defines have when it is processed, in the
\* defining file, in an included file and in the including file after the
\* inclusion
C17_DefineScope ==
    /\ [][/\ defines' # defines => TakesLiveLine /\ DefinesOnly(last'.text)
          /\ (Running /\ status' = "running") => KeepsEmitted
          /\ (EmitsContent /\ ~Chained(defines)) =>
                 /\ defines' = defines
                 /\ readers'[Len(readers)].result =
                       Append(Top.result, SinglePass(defines, last'.text))]_vars
    /\ []((status = "done" /\ fs[MainFile] = <<DefineA, SelectA, DefineA2, SelectA>>)
             => ret.lines = <<Select1, <<"SELECT", Space, "2", Space, "1", ";">> >>)
    /\ []((status = "done" /\ fs[MainFile] = <<SelectA, IncludeInc, SelectA>>
              /\ fs[IncFile] = <<DefineA, SelectA>>)
             => ret.lines = <<SelectA, Select1, Select1>>)

C17_Witness ==
    /\ status = "done"
    /\ fs[MainFile] = <<DefineA, SelectA, IncludeInc, SelectA>>
    /\ fs[IncFile] = <<DefineA2>>
    /\ ret.lines = <<Select1, <<"SELECT", Space, "2", Space, "1", ";">> >>

\* C18: when the target of a live #include cannot be opened, or a line or
\* the end of an included file fails, ProcessFile fails, returns no lines,
\* and the error holds the cause wrapped with the file and line of every
\* #include being expanded, the innermost first
C18_IncludeFailure ==
    [][/\ IncludesMissingFile =>
           /\ status' = "failed"
           /\ ret'.lines = <<>> /\ ret'.locations = <<>>
           /\ ret'.err.kind = "failed to open file"
           /\ WrappedAt(ret'.err, <<[file |-> last'.file, line |-> last'.line]>>
                                      \o IncludeChain)
       /\ (FailsInIncluded /\ ~IncludesMissingFile) =>
           /\ ret'.lines = <<>> /\ ret'.locations = <<>>
           /\ ret'.err.kind # "nil"
           /\ ret'.err.file = Top.file
           /\ WrappedAt(ret'.err, IncludeChain)]_vars

C18_Witness ==
    /\ status = "failed"
    /\ fs[MainFile] = <<Select1, IncludeInc>>
    /\ fs[IncFile] = <<Select2, EndLine>>
    /\ ret.err.kind = "#end without matching #ifdef or #ifndef"
    /\ ret.err.via = <<[file |-> MainFile, line |-> 2]>>
    /\ ret.lines = <<>>

\* C19: a call that failed returns no lines and no locations, and none of
\* the script's statements is handed to the executor
C19_FailsAtomically ==
    status = "failed" =>
        /\ ret.err # NoError
        /\ ret.lines = <<>> /\ ret.locations = <<>>
        /\ StatementsToExecute(ret) = <<>>
        /\ parseStatementsFromLines(ret.lines, ret.locations) = <<>>

C19_Witness ==
    /\ status = "failed"
    /\ fs[MainFile] = <<Select1, GoLine, Select2, EndLine>>
    /\ last.line = 4
    /\ StatementsToExecute(ret) = <<>>

\* C20: for a script with no directives and no introspection lines, the
\* Statements are the segments of the script between its delimiter lines, in
\* order, the trailing segment included: the text of each is its segment
\* trimmed, its origin the first line of the segment
C20_SplitOnDelimiters ==
    (status = "done" /\ PlainScript(fs[MainFile])) =>
        LET statements == parseStatementsFromLines(ret.lines, ret.locations)
            segments == SplitOnDelimiters(fs[MainFile])
        IN  /\ Len(statements) = Len(segments)
            /\ \A i \in DOMAIN segments :
                  /\ i <= Len(statements)
                  /\ statements[i].SQL = segments[i].text
                  /\ statements[i].Location.FileName = MainFile
                  /\ statements[i].Location.LineNumber = segments[i].first

\* C21: a line is taken as batch delimiter exactly when, trimmed and in lower
\* case, it is `go` or begins with `go` followed by a space or a tab; a
\* delimiter line lies in no Statement, its text is in none, and two
\* neighbouring lines that are neither delimiters nor introspection lines lie
\* in the same Statement
C21_DelimiterLines ==
    status = "done" =>
        LET lines == ret.lines
            statements == parseStatementsFromLines(ret.lines, ret.locations)
            Covers(s, k) == s.StartLine <= k /\ k <= s.EndLine
            Batch(k) == ~DelimiterLine(lines[k]) /\ ~IsSchemaCommand(lines[k])
        IN  /\ \A k \in DOMAIN lines :
                  /\ IsDelimiterLine(lines[k]) <=> DelimiterLine(lines[k])
                  /\ DelimiterLine(lines[k]) =>
                        \A i \in DOMAIN statements : ~Covers(statements[i], k)
            /\ \A k \in 1..(Len(lines) - 1) :
                  (Batch(k) /\ Batch(k + 1)) =>
                      \E i \in DOMAIN statements :
                          Covers(statements[i], k) /\ Covers(statements[i], k + 1)
            /\ \A i \in DOMAIN statements :
                  statements[i].SQL =
                      TrimSpace(JoinLines(SubSeq(lines, statements[i].StartLine,
                                                 statements[i].EndLine)))

\* C22: no Statement returned by parseStatementsFromLines has a text without
\* non-whitespace content, whatever blank lines the emitted lines hold
C22_NoEmptyStatement ==
    status = "done" =>
        LET statements == parseStatementsFromLines(ret.lines, ret.locations)
        IN  \A i \in DOMAIN statements : TrimSpace(statements[i].SQL) # <<>>

\* the trimmed text of the line starts with one of the @-command names
IntrospectionLine(line) ==
    /\ TrimSpace(line) # <<>>
    /\ TrimSpace(line)[1] \in
          {"@schema-all", "@schema-tables", "@schema-views", "@schema-procedures",
           "@schema-functions", "@drivers"}

\* C23: an introspection line is a Statement of its own, with its trimmed
\* text and the location of that line; no other Statement reaches over the
\* line, the lines before it lie in earlier Statements and the lines after
\* it in later ones, and the Statements follow the order of the lines
C23_IntrospectionAlone ==
    status = "done" =>
        LET lines == ret.lines
            statements == parseStatementsFromLines(ret.lines, ret.locations)
            Covers(s, k) == s.StartLine <= k /\ k <= s.EndLine
        IN  /\ \A k \in DOMAIN lines :
                  IntrospectionLine(lines[k]) =>
                      \E j \in DOMAIN statements :
                          /\ statements[j].StartLine = k
                          /\ statements[j].EndLine = k
                          /\ statements[j].SQL = TrimSpace(lines[k])
                          /\ statements[j].Location = ret.locations[k]
                          /\ \A i \in DOMAIN statements :
                                /\ i < j => statements[i].EndLine < k
                                /\ i > j => statements[i].StartLine > k
                          /\ \A a \in DOMAIN lines :
                                (TrimSpace(lines[a]) # <<>> /\ ~DelimiterLine(lines[a])) =>
                                    \E i \in DOMAIN statements :
                                        /\ Covers(statements[i], a)
                                        /\ a < k => i < j
                                        /\ a > k => i > j
            /\ \A i \in DOMAIN statements :
                  /\ statements[i].StartLine <= statements[i].EndLine
                  /\ i > 1 => statements[i - 1].EndLine < statements[i].StartLine

C23_Witness ==
    /\ status = "done"
    /\ fs[MainFile] = <<Select1, BlankLine, SchemaLine, Select1>>
    /\ Len(parseStatementsFromLines(ret.lines, ret.locations)) = 3
    /\ parseStatementsFromLines(ret.lines, ret.locations)[2].SQL =
          <<"@schema-tables", Space, "c">>

\* C24: the origin of every Statement is the location of the first line
\* appended to its buffer, a line the expander emitted and that is no
\* directive line, and no origin is left over from the Statement before; the
\* Execute call of a Statement gets the file and line of that origin
C24_StatementOrigin ==
    status = "done" =>
        LET lines == ret.lines
            statements == StatementsToExecute(ret)
        IN  \A i \in DOMAIN statements :
                LET s == statements[i]
                    k == s.StartLine
                IN  /\ k \in DOMAIN lines
                    /\ ~IsDelimiterLine(lines[k])
                    /\ \/ k = 1
                       \/ IsDelimiterLine(lines[k - 1])
                       \/ IntrospectionLine(lines[k - 1])
                       \/ IntrospectionLine(lines[k])
                    /\ s.Location = ret.locations[k]
                    /\ i > 1 => k > statements[i - 1].EndLine
                    /\ PhysicalLocation(s.Location)
                    /\ ~DirectiveLine(fs[s.Location.FileName][s.Location.LineNumber])
                    /\ (~SkipsStatement(s) /\ ~IsSchemaCommand(s.SQL)) =>
                          /\ ExecuteCall(statements, i).sql = s.SQL
                          /\ ExecuteCall(statements, i).fileName = ret.locations[k].FileName
                          /\ ExecuteCall(statements, i).lineNumber =
                                ret.locations[k].LineNumber

\* the calls follow the order of the list, and an empty statement gets none
InListOrder ==
    \A a \in DOMAIN calls :
        /\ calls[a].index \in DOMAIN stmtList
        /\ ~SkipsStatement(stmtList[calls[a].index])
        /\ calls[a].args.sql = stmtList[calls[a].index].SQL
        /\ calls[a].target = "introspector" <=> IsSchemaCommand(stmtList[calls[a].index].SQL)
        /\ a > 1 => calls[a - 1].index < calls[a].index

\* with stop-on-error set, no call follows a call that returned an error
StopsAtFirstError ==
    endOnError => \A a \in DOMAIN calls : calls[a].failed => a = Len(calls)

\* executeStatements has returned
Returned == execRet \notin {"none", "running"}

\* C26 as claimed: the statements are executed in list order; with
\* stop-on-error set nothing is executed after the first error; without it,
\* once executeStatements has returned, every statement with text that
\* follows a failed one was executed too
C26_ErrorEndsStatementOnly ==
    /\ InListOrder
    /\ StopsAtFirstError
    /\ (Returned /\ ~endOnError) =>
          \A a \in DOMAIN calls :
              calls[a].failed =>
                  \A j \in DOMAIN stmtList :
                      (j > calls[a].index /\ ~SkipsStatement(stmtList[j])) =>
                          \E b \in DOMAIN calls : calls[b].index = j

\* C26 amended: as above, but without stop-on-error the later statements
\* are executed unless the formatter returned an error; an error of the
\* formatter ends executeStatements at once under either setting
C26_UnlessFormatterFails ==
    /\ InListOrder
    /\ StopsAtFirstError
    /\ (execRet = "nil" /\ ~endOnError) =>
          \A j \in DOMAIN stmtList :
              ~SkipsStatement(stmtList[j]) => \E b \in DOMAIN calls : calls[b].index = j
    /\ (Returned /\ ~endOnError) => execRet \in {"nil", "error formatting result"}
    /\ execRet = "error formatting result" =>
          /\ calls # <<>>
          /\ calls[Len(calls)].target = "executor"
          /\ calls[Len(calls)].index = stmtIndex
    /\ (Returned /\ endOnError /\ execRet # "error formatting result") =>
          (execRet = "nil" <=> \A a \in DOMAIN calls : ~calls[a].failed)

C26_Witness ==
    /\ execRet = "nil"
    /\ ~endOnError
    /\ Len(calls) = 3
    /\ calls[1].failed /\ calls[1].target = "executor"
    /\ calls[2].failed /\ calls[2].target = "introspector"
    /\ ~calls[3].failed

\* what a script without #include lines yields when nothing was processed
\* before it, from line k on: defs are the names defined so far, frames the
\* truth of the open blocks (own test and every enclosing block), out the
\* lines emitted
RECURSIVE AloneFrom(_, _, _, _, _)
AloneFrom(script, k, defs, frames, out) ==
    LET line == script[k]
        t == TrimSpace(line)
        live == \A i \in DOMAIN frames : frames[i]
        test == IF t[1] = "#ifdef" THEN MatchConditional(t[1], t) \in DOMAIN defs
                ELSE MatchConditional(t[1], t) \notin DOMAIN defs
    IN  IF k > Len(script)
          THEN [ok |-> frames = <<>>, lines |-> IF frames = <<>> THEN out ELSE <<>>]
        ELSE IF OpensBlock(line)
          THEN AloneFrom(script, k + 1, defs, Append(frames, live /\ test), out)
        ELSE IF ClosesBlock(line)
          THEN IF frames = <<>> THEN [ok |-> FALSE, lines |-> <<>>]
               ELSE AloneFrom(script, k + 1, defs, SubSeq(frames, 1, Len(frames) - 1), out)
        ELSE IF ~live
          THEN AloneFrom(script, k + 1, defs, frames, out)
        ELSE IF WellFormedDefine(line)
          THEN AloneFrom(script, k + 1,
                         [n \in DOMAIN defs \cup {NameOf(line)} |->
                             IF n = NameOf(line)
                               THEN [Name |-> n, Value |-> ValueOf(line)]
                               ELSE defs[n]],
                         frames, out)
        ELSE AloneFrom(script, k + 1, defs, frames, Append(out, SinglePass(defs, line)))

Alone(script) == AloneFrom(script, 1, NoDefines, <<>>, <<>>)

\* C25: what Processor.ProcessFile gets for a file of a directory is what
\* the file yields alone, whatever file was processed before it and however
\* that ended: the same success or failure, the same lines, the same
\* Statements, every location in the file itself
C25_FilesIsolated ==
    (status \in {"done", "failed"} /\ last.file \in {MainFile, OtherFile}) =>
        LET alone == Alone(fs[last.file])
        IN  /\ status = "done" <=> alone.ok
            /\ ret.lines = alone.lines
            /\ \A k \in DOMAIN ret.locations : ret.locations[k].FileName = last.file
            /\ StatementsToExecute(ret) =
                  IF alone.ok
                    THEN parseStatementsFromLines(alone.lines, ret.locations)
                    ELSE <<>>

C25_Witness ==
    /\ status = "done"
    /\ last.file = OtherFile
    /\ fs[MainFile] = <<DefineA, IfdefA>>
    /\ fs[OtherFile] = <<IfdefA, SelectA, EndLine>>
    /\ ret.lines = <<>>

\* the open blocks of the files that include the file being read
OuterFrames(frames, depth) ==
    SelectSeq(frames, LAMBDA frame : frame.depth < depth)

\* C27: an #end closes a block opened in the file it stands in, or fails
\* with the '#end without matching' error when that file has no block open,
\* whatever blocks the including files have open; no step in an included
\* file changes the blocks of the including files
C27_BalancedPerFile ==
    [][/\ (Running /\ last'.op = "line" /\ ClosesBlock(last'.text)) =>
            IF opened # <<>> /\ opened[Len(opened)].depth = Len(readers)
              THEN /\ status' = "running"
                   /\ opened' = SubSeq(opened, 1, Len(opened) - 1)
              ELSE /\ status' = "failed"
                   /\ ret'.err.kind = "#end without matching #ifdef or #ifndef"
                   /\ ret'.err.file = Top.file
       /\ (Running /\ status' = "running") =>
            OuterFrames(opened', Len(readers)) = OuterFrames(opened, Len(readers))]_vars

\* this step handed a live line that starts with `#define ` to processDefine
CallsProcessDefine ==
    /\ TakesLiveLine
    /\ HasPrefix(TrimSpace(last'.text), <<"#define", Space>>)

\* C28: processDefine ends in an error returned to the caller, or in a
\* define stored with no line emitted; it never aborts, whatever the value
C28_DefineNeverAborts ==
    [][CallsProcessDefine =>
          /\ status' # "panic"
          /\ \/ /\ status' = "failed"
                /\ ret'.err # NoError
             \/ /\ status' = "running"
                /\ readers'[Len(readers)].result = Top.result
                /\ \E name \in DOMAIN defines' :
                      defines' = SetDefineIn(defines, name, defines'[name].Value)]_vars

\* a script of content lines and balanced, well-formed conditionals
WellFormedScript(script) ==
    /\ Balanced(script)
    /\ \A k \in DOMAIN script : script[k] \in {SelectA, IfdefA, EndLine}

\* C29: a call made by the caller starts with an empty conditional stack,
\* and a call on a well-formed script succeeds with the lines the script
\* yields alone, however the call before on the same Preprocessor ended
C29_StackEmptyAtCall ==
    /\ last.op = "call" => conditionalStack = <<>>
    /\ (status \in {"done", "failed"} /\ last.file = OtherFile
           /\ WellFormedScript(fs[OtherFile])) =>
          /\ status = "done"
          /\ ret.lines = Alone(fs[OtherFile]).lines

\* the files that the lines of file f read so far name in #include
\* directives, and the files reached from there
Includes(f) ==
    {MatchInclude(TrimSpace(fs[f][k])) :
        k \in {j \in DOMAIN fs[f] : MatchInclude(TrimSpace(fs[f][j])) # None}}
      \cap FileNames

IncludesOfAll(S) == S \cup UNION {Includes(g) : g \in S}

\* no file includes itself, directly or through other files
Acyclic ==
    \A f \in FileNames : f \notin IncludesOfAll(IncludesOfAll(Includes(f)))

\* the step read one more line of the innermost file, or ended that file
\* or the call
Progresses ==
    \/ status' # "running"
    \/ Len(readers') < Len(readers)
    \/ /\ Len(readers') >= Len(readers)
       /\ readers'[Len(readers)].lineNumber = Top.lineNumber + 1

\* C30 as claimed: an inclusion cycle never makes the recursion unbounded:
\* no file is entered, while it is being expanded, with the defines and the
\* conditional stack it was entered with before (from there the expansion
\* repeats itself at every level and never returns)
C30_NoUnboundedRecursion ==
    \A i, j \in DOMAIN readers :
        (i < j /\ readers[i].file = readers[j].file) =>
            readers[i].entered # readers[j].entered

\* C30 amended: when the #include directives of the files form no cycle, no
\* file is entered while it is being expanded, so the nesting is at most
\* the number of files, and every step reads one more line of a file or
\* ends a reader: the call ends after finitely many steps
C30_AcyclicTerminates ==
    /\ [][Running => Progresses]_vars
    /\ [](Acyclic =>
            /\ Len(readers) <= Cardinality(FileNames)
            /\ \A i, j \in DOMAIN readers : i < j => readers[i].file # readers[j].file)

C30_Witness ==
    /\ status = "done"
    /\ Acyclic
    /\ fs[MainFile] = <<IncludeInc, DefineA, IncludeInc>>
    /\ fs[IncFile] = <<SelectA>>
    /\ ret.lines = <<SelectA, <<"SELECT", Space, "1", ";">>>>

====
